---- MODULE Spec2Model ----
(***************************************************************************)
(* A model of src/src/main.rs: the strided two-dimensional Array with its  *)
(* three kinds of backing data (Vec, PhantomData<&U>, PhantomData<&mut U>),*)
(* slice / slice_mut, Index / IndexMut, the Matrix constructors and the    *)
(* multiplication of two Matrix<f32> through sgemm.                        *)
(*                                                                         *)
(* Two specifications share the module:                                    *)
(*   Spec        one owned matrix and the views sliced out of it           *)
(*   SpecMatrix  the constructors and the product of two owned matrices    *)
(***************************************************************************)
EXTENDS Integers, Sequences, FiniteSets, TLC

VARIABLES
    build,      \* "debug" (overflow checks on) or "release" (usize wraps)
    arrays,     \* handle -> Array; handle 0 is the owned matrix, the rest views
    mem,        \* the Vec buffer of the owned matrix (cell at address a is mem[a+1])
    out,        \* what the last operation of Spec returned
    ma, mb, mc, \* SpecMatrix: the operands and the product
    mout        \* SpecMatrix: what the last operation returned

vars == <<build, arrays, mem, out, ma, mb, mc, mout>>
viewVars == <<arrays, mem, out>>
matrixVars == <<ma, mb, mc, mout>>

(***************************************************************************)
(* Bounds.                                                                 *)
(***************************************************************************)
\* usize has UsizeBits bits (64 on the usual target, scaled down here).
UsizeBits == 7
\* Index arguments i, j of Index / IndexMut range over 0 .. MaxIdx.
MaxIdx == 1
\* Shapes handed to the constructors have rows, cols in 0 .. MaxDim.
MaxDim == 2
\* At most MaxWrites cells of the owned buffer are overwritten in one run.
MaxWrites == 1

WordMod == 2 ^ UsizeBits
\* isize::MAX, the most bytes one allocation may hold.
IsizeMax == 2 ^ (UsizeBits - 1) - 1
\* size_of::<f32>(), the only element type the Ring is implemented for.
SizeOfF32 == 4
Idx == 0 .. MaxIdx
Dims == 0 .. MaxDim
\* The view handles of a run (the program's view variables).
ViewIds == {1, 2}
ArrayIds == {0} \cup ViewIds

(***************************************************************************)
(* Elements.  f32 is modelled by small non-negative integers (exact in     *)
(* f32), +infinity and NaN; "uninit" is a cell of a buffer that set_len    *)
(* exposed and nothing wrote.                                              *)
(***************************************************************************)
Fin(n) == [k |-> "fin", v |-> n]
PosInf == [k |-> "inf", v |-> 0]
NaN == [k |-> "nan", v |-> 0]
Uninit == [k |-> "uninit", v |-> 0]

\* ring!(f32): zero() is 0 as f32, one() is 1 as f32.
RingZero == Fin(0)
RingOne == Fin(1)

\* f32 multiplication and addition on the modelled values.
FMul(x, y) ==
    IF x.k = "uninit" \/ y.k = "uninit" THEN Uninit
    ELSE IF x.k = "nan" \/ y.k = "nan" THEN NaN
    ELSE IF x.k = "inf" /\ y.k = "inf" THEN PosInf
    ELSE IF x.k = "inf" THEN (IF y.v = 0 THEN NaN ELSE PosInf)
    ELSE IF y.k = "inf" THEN (IF x.v = 0 THEN NaN ELSE PosInf)
    ELSE Fin(x.v * y.v)

FAdd(x, y) ==
    IF x.k = "uninit" \/ y.k = "uninit" THEN Uninit
    ELSE IF x.k = "nan" \/ y.k = "nan" THEN NaN
    ELSE IF x.k = "inf" \/ y.k = "inf" THEN PosInf
    ELSE Fin(x.v + y.v)

\* f32's == : NaN is equal to nothing.
FEq(x, y) == x.k \notin {"nan", "uninit"} /\ y.k \notin {"nan", "uninit"} /\ x = y

(***************************************************************************)
(* usize arithmetic.  An operation whose exact result is outside           *)
(* 0 .. WordMod-1 panics in a debug build and wraps in a release build.    *)
(***************************************************************************)
Overflows(x) == x < 0 \/ x >= WordMod
Wrap(x) == x % WordMod

(***************************************************************************)
(* ArrayRange and the From conversions.                                    *)
(***************************************************************************)
None == [some |-> FALSE, val |-> 0]
Some(x) == [some |-> TRUE, val |-> x]
unwrap_or(o, d) == IF o.some THEN o.val ELSE d

ArrayRange(s, e) == [start |-> s, end |-> e]
FromRange(a, b) == ArrayRange(a, Some(b))
FromRangeFull == ArrayRange(0, None)
FromRangeFrom(a) == ArrayRange(a, None)
FromRangeTo(b) == ArrayRange(0, Some(b))
FromUsize(r) == ArrayRange(r, Some(Wrap(r + 1)))

\* The (rows, columns) arguments of the slice calls of a run.  Every From
\* conversion occurs; the ranges are whole, a single row or column, one cell,
\* inverted (1..0), zero-width (1..1) and past the end of two rows (..3).
SliceArgs ==
    { <<FromRangeFull, FromRangeFull>>,
      <<FromUsize(1), FromRangeFull>>,
      <<FromRangeFull, FromUsize(1)>>,
      <<FromUsize(1), FromRangeTo(1)>>,
      <<FromRangeFrom(1), FromRangeFrom(1)>>,
      <<FromRange(1, 0), FromRangeFull>>,
      <<FromRange(1, 1), FromRangeFull>>,
      <<FromRangeTo(3), FromRangeFull>> }

(***************************************************************************)
(* Array<A, U>.  `data` is the kind of backing: "vec" (Vec<U>, the Matrix),*)
(* "ref" (PhantomData<&U>) or "mut" (PhantomData<&mut U>).  `start` is the *)
(* pointer, counted in elements from the first element of the owned        *)
(* buffer.  parent, is and js are not fields of the struct: they record    *)
(* which array a view borrows (the lifetime 'a of its PhantomData) and the *)
(* ranges it was sliced with.                                              *)
(***************************************************************************)
NoArray ==
    [start |-> 0, live |-> FALSE, data |-> "none", shape |-> <<0, 0>>,
     stride |-> 0, parent |-> 0, is |-> FromRangeFull, js |-> FromRangeFull]

\* impl DataMut: Vec<T> and PhantomData<&mut T>, not PhantomData<&T>.
DataMut(a) == a.data \in {"vec", "mut"}

\* Array::stride
stride(self) == self.stride

\* The size computed by slice and slice_mut for one dimension.
SliceLen(r, dim) == unwrap_or(r.end, dim) - r.start

\* The element offset of the upper left corner computed by slice and slice_mut.
\* (UpperLeftSwapped exchanges the row and the column start: a wrong offset.)
UpperLeftSwapped(self, is, js) == stride(self) * js.start + is.start
UpperLeft(self, is, js) == stride(self) * is.start + js.start

\* The checked usize operations of slice / slice_mut that overflow.
SliceOverflows(self, is, js) ==
    \/ Overflows(SliceLen(is, self.shape[1]))
    \/ Overflows(SliceLen(js, self.shape[2]))
    \/ Overflows(stride(self) * is.start)
    \/ Overflows(UpperLeft(self, is, js))

\* The struct built at the end of slice / slice_mut (release arithmetic).
Sliced(self, is, js, kind) ==
    [start |-> Wrap(self.start + Wrap(UpperLeft(self, is, js))),
     data |-> kind,
     shape |-> <<Wrap(SliceLen(is, self.shape[1])), Wrap(SliceLen(js, self.shape[2]))>>,
     stride |-> self.stride]

\* Array::slice: a panic (debug build, overflow) or the immutable view.
slice(self, is, js) ==
    [panic |-> build = "debug" /\ SliceOverflows(self, is, js),
     array |-> Sliced(self, is, js, "ref")]

\* Array::slice_mut: a panic (debug build, overflow) or the mutable view.
slice_mut(self, is, js) ==
    [panic |-> build = "debug" /\ SliceOverflows(self, is, js),
     array |-> Sliced(self, is, js, "mut")]

\* Index::index: the address start.add(i * stride + j).
index_addr(self, i, j) == Wrap(self.start + Wrap(i * stride(self) + j))

\* IndexMut::index_mut: the address start.add(i * stride + j).
\* (index_mut_addr_dense uses the column count for the stride: wrong in a view.)
index_mut_addr_dense(self, i, j) == Wrap(self.start + Wrap(i * self.shape[2] + j))
index_mut_addr(self, i, j) == Wrap(self.start + Wrap(i * stride(self) + j))

\* i * stride + j overflows usize (a panic in a debug build).
IndexOverflows(self, i, j) ==
    Overflows(i * stride(self)) \/ Overflows(i * stride(self) + j)

(***************************************************************************)
(* Matrix<R> = Array<Vec<R>, R> and its constructors.  A constructed       *)
(* matrix is [shape, stride, start, buf]: buf is the Vec, start the offset *)
(* of the pointer from buf's first element (as_mut_ptr() is offset 0).     *)
(***************************************************************************)
NoMatrix == [start |-> 0, live |-> FALSE, shape |-> <<0, 0>>, stride |-> 0, buf |-> <<>>]

\* A read or a write of buf through a raw pointer at element offset a.
BufRead(buf, a) == IF a < Len(buf) THEN buf[a + 1] ELSE Uninit
BufWrite(buf, a, x) == IF a < Len(buf) THEN [buf EXCEPT ![a + 1] = x] ELSE buf

\* Vec::with_capacity(n) and vec![x; n] panic ("capacity overflow") when n
\* elements need more than isize::MAX bytes.
CapacityOverflow(n) == n * SizeOfF32 > IsizeMax

\* The allocation of shape panics: m * n overflows in a debug build, or the
\* (wrapped) m * n elements exceed the capacity of a Vec.
AllocPanics(shape) ==
    \/ build = "debug" /\ Overflows(shape[1] * shape[2])
    \/ CapacityOverflow(Wrap(shape[1] * shape[2]))

\* A buffer of n elements, each x.
RECURSIVE Filled(_, _)
Filled(n, x) == IF n = 0 THEN <<>> ELSE Append(Filled(n - 1, x), x)

\* Array::uninitialized_memory: with_capacity(m * n), set_len(m * n).
uninitialized_memory(shape) ==
    [start |-> 0, live |-> TRUE, shape |-> shape, stride |-> shape[2],
     buf |-> Filled(Wrap(shape[1] * shape[2]), Uninit)]

\* Matrix::zero: vec![R::zero(); m * n].
zero(shape) ==
    [start |-> 0, live |-> TRUE, shape |-> shape, stride |-> shape[2],
     buf |-> Filled(Wrap(shape[1] * shape[2]), RingZero)]

\* The closures handed to from_fn: each maps (i, j) to an element.
Fns == {"id", "rowmajor", "ones", "inf_corner"}
Apply(f, i, j) ==
    CASE f = "id" -> (IF i = j THEN RingOne ELSE RingZero)
      [] f = "rowmajor" -> Fin(2 * i + j + 1)
      [] f = "ones" -> Fin(1)
      [] OTHER -> (IF i = 0 /\ j = 0 THEN PosInf ELSE Fin(i + j + 1))

\* The loops of from_fn from cell (i, j) on: ret[[i, j]] = f(i, j).
RECURSIVE from_fn_loop(_, _, _, _)
from_fn_loop(ret, f, i, j) ==
    IF i >= ret.shape[1] THEN ret
    ELSE IF j >= ret.shape[2] THEN from_fn_loop(ret, f, i + 1, 0)
    ELSE from_fn_loop(
            [ret EXCEPT !.buf = BufWrite(ret.buf, index_mut_addr(ret, i, j), Apply(f, i, j))],
            f, i, j + 1)

\* The loops of from_fn write ret[[i, j]] outside the allocated buffer: m * n
\* wrapped, so the buffer is shorter than the shape.
from_fn_writes_outside(shape) ==
    LET ret == uninitialized_memory(shape)
    IN \E i \in 0 .. shape[1] - 1, j \in 0 .. shape[2] - 1 :
          index_mut_addr(ret, i, j) >= Len(ret.buf)

\* Matrix::from_fn
\* (from_fn_skip_first_row leaves row 0 unwritten.)
from_fn_skip_first_row(shape, f) == from_fn_loop(uninitialized_memory(shape), f, 1, 0)
from_fn(shape, f) == from_fn_loop(uninitialized_memory(shape), f, 0, 0)

\* Matrix::id
id(n) == from_fn(<<n, n>>, "id")

\* matrix!: rows is the two-dimensional array literal (rows of equal length).
RECURSIVE Flatten(_)
Flatten(rows) == IF rows = <<>> THEN <<>> ELSE Head(rows) \o Flatten(Tail(rows))
matrix(rows) ==
    [start |-> 0, live |-> TRUE, shape |-> <<Len(rows), Len(rows[1])>>,
     stride |-> Len(rows[1]), buf |-> Flatten(rows)]

(***************************************************************************)
(* The kernel, matrixmultiply::sgemm, is not part of the repository: it is *)
(* modelled from its contract, C = alpha * A.B + beta * C over the m*n     *)
(* cells of C, each operand given by a pointer (a buffer and an element    *)
(* offset into it), a row stride and a column stride.  With beta = 0 the   *)
(* old contents of C are discarded without being read.                     *)
(***************************************************************************)
PtrTo(buf, off) == [buf |-> buf, off |-> off]

\* A[i, 0..k-1] . B[0..k-1, j], summed left to right from p on.
RECURSIVE sgemm_dot(_, _, _, _, _, _, _, _, _, _)
sgemm_dot(k, a, rsa, csa, b, rsb, csb, i, j, p) ==
    IF p = 0 THEN Fin(0)
    ELSE FAdd(sgemm_dot(k, a, rsa, csa, b, rsb, csb, i, j, p - 1),
              FMul(BufRead(a.buf, a.off + i * rsa + (p - 1) * csa),
                   BufRead(b.buf, b.off + (p - 1) * rsb + j * csb)))

sgemm_cell(k, alpha, a, rsa, csa, b, rsb, csb, beta, old, i, j) ==
    LET ab == FMul(alpha, sgemm_dot(k, a, rsa, csa, b, rsb, csb, i, j, k))
    IN IF beta = Fin(0) THEN ab ELSE FAdd(ab, FMul(beta, old))

\* The cells of C from (i, j) on, row by row; the result is C's buffer.
RECURSIVE sgemm_loop(_, _, _, _, _, _, _, _, _, _, _, _, _, _, _, _)
sgemm_loop(m, k, n, alpha, a, rsa, csa, b, rsb, csb, beta, c, rsc, csc, i, j) ==
    IF i >= m THEN c.buf
    ELSE IF j >= n
    THEN sgemm_loop(m, k, n, alpha, a, rsa, csa, b, rsb, csb, beta, c, rsc, csc, i + 1, 0)
    ELSE LET at == c.off + i * rsc + j * csc
             x == sgemm_cell(k, alpha, a, rsa, csa, b, rsb, csb, beta,
                             BufRead(c.buf, at), i, j)
         IN sgemm_loop(m, k, n, alpha, a, rsa, csa, b, rsb, csb, beta,
                       PtrTo(BufWrite(c.buf, at, x), c.off), rsc, csc, i, j + 1)

\* With no cell to compute (m = 0 or n = 0) the kernel returns at once.
sgemm(m, k, n, alpha, a, rsa, csa, b, rsb, csb, beta, c, rsc, csc) ==
    IF m = 0 \/ n = 0 THEN c.buf
    ELSE sgemm_loop(m, k, n, alpha, a, rsa, csa, b, rsb, csb, beta, c, rsc, csc, 0, 0)

\* The kernel reads or writes outside a buffer it was handed: it touches
\* nothing when m or n is 0, the m * n cells of C otherwise, and the m * k
\* cells of A and the k * n cells of B when k > 0.
sgemm_out_of_bounds(m, k, n, a, rsa, b, rsb, c, rsc) ==
    /\ m > 0 /\ n > 0
    /\ \/ c.off + (m - 1) * rsc + n > Len(c.buf)
       \/ k > 0 /\ a.off + (m - 1) * rsa + k > Len(a.buf)
       \/ k > 0 /\ b.off + (k - 1) * rsb + n > Len(b.buf)

(***************************************************************************)
(* impl Mul for &Matrix<f32>.                                              *)
(***************************************************************************)
\* assert!(l == k)
\* (mul_assert_outer compares the outer dimensions instead.)
mul_assert_outer(self, rhs) == rhs.shape[2] = self.shape[1]
mul_assert(self, rhs) == rhs.shape[1] = self.shape[2]

\* The leading dimensions mul hands to sgemm for self, rhs and ret.
mul_strides(self, rhs) == <<self.shape[2], rhs.shape[2], rhs.shape[2]>>

\* The sgemm call of mul runs outside the buffer of self, rhs or ret
\* (undefined behaviour: the process faults).
mul_faults(self, rhs) ==
    LET ld == mul_strides(self, rhs)
        ret == uninitialized_memory(<<self.shape[1], rhs.shape[2]>>)
    IN sgemm_out_of_bounds(self.shape[1], self.shape[2], rhs.shape[2],
                           PtrTo(self.buf, self.start), ld[1],
                           PtrTo(rhs.buf, rhs.start), ld[2],
                           PtrTo(ret.buf, ret.start), ld[3])

\* The body of mul after the assertion: the allocation and the kernel call.
\* (mul_accumulating passes beta = 1: the kernel adds to the uninitialised result.)
mul_accumulating(self, rhs) ==
    LET m == self.shape[1]
        k == self.shape[2]
        n == rhs.shape[2]
        ld == mul_strides(self, rhs)
        ret == uninitialized_memory(<<m, n>>)
    IN [ret EXCEPT !.buf =
            sgemm(m, k, n, Fin(1),
                  PtrTo(self.buf, self.start), ld[1], 1,
                  PtrTo(rhs.buf, rhs.start), ld[2], 1,
                  Fin(1),
                  PtrTo(ret.buf, ret.start), ld[3], 1)]
mul(self, rhs) ==
    LET m == self.shape[1]
        k == self.shape[2]
        n == rhs.shape[2]
        ld == mul_strides(self, rhs)
        ret == uninitialized_memory(<<m, n>>)
    IN [ret EXCEPT !.buf =
            sgemm(m, k, n, Fin(1),
                  PtrTo(self.buf, self.start), ld[1], 1,
                  PtrTo(rhs.buf, rhs.start), ld[2], 1,
                  Fin(0),
                  PtrTo(ret.buf, ret.start), ld[3], 1)]

(***************************************************************************)
(* Spec: one owned matrix, built by matrix!, and the views sliced from it. *)
(***************************************************************************)
Builds == {"debug", "release"}

\* The literals the owned matrix of Spec is built from.
OwnerLiterals ==
    { << <<Fin(1), Fin(2), Fin(3)>>, <<Fin(4), Fin(5), Fin(6)>> >> }

\* The values written through IndexMut (no literal holds them).
WriteVals == {Fin(9)}

NoOut == [val |-> Uninit, res |-> "none"]
Returned(x) == [val |-> x, res |-> "ok"]
Panicked == [val |-> Uninit, res |-> "panic"]
Faulted == [val |-> Uninit, res |-> "fault"]

\* A panic unwinds and a fault kills the process: nothing runs after either.
Running == out.res \notin {"panic", "fault"}

\* The Matrix as the Array with handle 0.
OwnedArray(mx) ==
    [start |-> mx.start, live |-> TRUE, data |-> "vec", shape |-> mx.shape,
     stride |-> mx.stride, parent |-> 0, is |-> FromRangeFull, js |-> FromRangeFull]

\* The view a slice call returned, with the borrow it holds.
ViewOf(a, src, is, js) ==
    [start |-> a.start, live |-> TRUE, data |-> a.data, shape |-> a.shape,
     stride |-> a.stride, parent |-> src, is |-> is, js |-> js]

\* What the last operation of SpecMatrix did: op, its outcome, whether sgemm
\* was called and the leading dimensions it was handed.
NoMout == [ld |-> <<0, 0, 0>>, res |-> "none", op |-> "none", kernel |-> FALSE]
Done(op) == [ld |-> <<0, 0, 0>>, res |-> "ok", op |-> op, kernel |-> FALSE]
PanickedIn(op) == [ld |-> <<0, 0, 0>>, res |-> "panic", op |-> op, kernel |-> FALSE]
FaultedIn(op) == [ld |-> <<0, 0, 0>>, res |-> "fault", op |-> op, kernel |-> FALSE]

Init ==
    /\ build \in Builds
    /\ \E lit \in OwnerLiterals :
          /\ arrays = [h \in ArrayIds |->
                          IF h = 0 THEN OwnedArray(matrix(lit)) ELSE NoArray]
          /\ mem = matrix(lit).buf
    /\ out = NoOut
    /\ ma = NoMatrix /\ mb = NoMatrix /\ mc = NoMatrix
    /\ mout = NoMout

\* The live views borrowed from array s.
Children(s) == {v \in ViewIds : arrays[v].live /\ arrays[v].parent = s}

\* The borrow checker on `&'a self`: a view returned for 'a keeps self shared
\* borrowed, which no live `&'a mut self` borrow of self allows.
SharedBorrowOk(s) == \A v \in Children(s) : arrays[v].data # "mut"

\* The borrow checker on `&'a mut self`: no other borrow of self is live.
\* (ExclBorrowIgnoresShared lets a mutable borrow coexist with shared ones.)
ExclBorrowIgnoresShared(s) == \A v \in Children(s) : arrays[v].data # "mut"
ExclBorrowOk(s) == Children(s) = {}

FreeIds == {v \in ViewIds : ~arrays[v].live}
NextId == CHOOSE v \in FreeIds : \A w \in FreeIds : v <= w

\* let v = src.slice(is, js)
Slice(src, is, js) ==
    /\ Running
    /\ arrays[src].live
    /\ SharedBorrowOk(src)
    /\ LET r == slice(arrays[src], is, js)
       IN IF r.panic
          THEN /\ out' = Panicked
               /\ UNCHANGED arrays
          ELSE /\ FreeIds # {}
               /\ arrays' = [arrays EXCEPT ![NextId] = ViewOf(r.array, src, is, js)]
               /\ out' = NoOut
    /\ UNCHANGED <<build, mem, matrixVars>>

\* let v = src.slice_mut(is, js)
SliceMut(src, is, js) ==
    /\ Running
    /\ arrays[src].live
    /\ DataMut(arrays[src])
    /\ ExclBorrowOk(src)
    /\ LET r == slice_mut(arrays[src], is, js)
       IN IF r.panic
          THEN /\ out' = Panicked
               /\ UNCHANGED arrays
          ELSE /\ FreeIds # {}
               /\ arrays' = [arrays EXCEPT ![NextId] = ViewOf(r.array, src, is, js)]
               /\ out' = NoOut
    /\ UNCHANGED <<build, mem, matrixVars>>

\* What the unchecked read `&*p` can do at element offset a of the buffer:
\* inside the allocation it yields the cell; outside it is undefined, and the
\* build either faults or yields whatever lies there.
ReadOutcomes(a) ==
    IF a < Len(mem) THEN {Returned(mem[a + 1])}
    ELSE {Faulted, Returned(Uninit)}

\* src[[i, j]]
Index(src, i, j) ==
    /\ Running
    /\ arrays[src].live
    /\ SharedBorrowOk(src)
    /\ IF build = "debug" /\ IndexOverflows(arrays[src], i, j)
       THEN out' = Panicked
       ELSE out' \in ReadOutcomes(index_addr(arrays[src], i, j))
    /\ UNCHANGED <<build, arrays, mem, matrixVars>>

Written == Cardinality({c \in 1 .. Len(mem) : mem[c] \in WriteVals})

\* src[[i, j]] = x
IndexMut(src, i, j, x) ==
    /\ Running
    /\ arrays[src].live
    /\ DataMut(arrays[src])
    /\ ExclBorrowOk(src)
    /\ Written < MaxWrites
    /\ IF build = "debug" /\ IndexOverflows(arrays[src], i, j)
       THEN /\ out' = Panicked
            /\ UNCHANGED mem
       ELSE LET a == index_mut_addr(arrays[src], i, j)
            IN IF a < Len(mem)
               THEN /\ mem' = BufWrite(mem, a, x)
                    /\ out' = NoOut
               ELSE \* undefined: a fault, or a store outside the buffer
                    /\ out' \in {Faulted, NoOut}
                    /\ UNCHANGED mem
    /\ UNCHANGED <<build, arrays, matrixVars>>

\* The view v goes out of scope; nothing may still borrow it.
Release(v) ==
    /\ Running
    /\ arrays[v].live
    /\ Children(v) = {}
    /\ arrays' = [arrays EXCEPT ![v] = NoArray]
    /\ out' = NoOut
    /\ UNCHANGED <<build, mem, matrixVars>>

Next ==
    \/ \E src \in ArrayIds, r \in SliceArgs : Slice(src, r[1], r[2])
    \/ \E src \in ArrayIds, r \in SliceArgs : SliceMut(src, r[1], r[2])
    \/ \E src \in ArrayIds, i \in Idx, j \in Idx : Index(src, i, j)
    \/ \E src \in ArrayIds, i \in Idx, j \in Idx, x \in WriteVals : IndexMut(src, i, j, x)
    \/ \E v \in ViewIds : Release(v)

Spec == Init /\ [][Next]_vars

(***************************************************************************)
(* SpecMatrix: let a = <constructor>; let b = <constructor>; &a * &b.      *)
(***************************************************************************)
\* The literals handed to matrix!.
Literals ==
    { << <<Fin(1), Fin(2), Fin(3)>>, <<Fin(4), Fin(5), Fin(6)>> >>,
      << <<Fin(7), Fin(8)>>, <<Fin(9), Fin(10)>>, <<Fin(11), Fin(12)>> >> }

\* A dimension and a shape whose m * n does not fit in usize.
HugeDim == 2 ^ (UsizeBits - 1)
HugeShape == <<HugeDim, 2>>

Shapes == {<<m, n>> : m \in Dims, n \in Dims} \cup {HugeShape}
Sizes == Dims \cup {HugeDim}

InitMatrix ==
    /\ build \in Builds
    /\ arrays = [h \in ArrayIds |-> NoArray]
    /\ mem = <<>>
    /\ out = NoOut
    /\ ma = NoMatrix /\ mb = NoMatrix /\ mc = NoMatrix
    /\ mout = NoMout

MatrixRunning == mout.res \notin {"panic", "fault"}

\* let a = mx, or let b = mx once a is bound.
Bind(mx) ==
    /\ ~ma.live \/ ~mb.live
    /\ IF ~ma.live THEN ma' = mx /\ UNCHANGED mb ELSE mb' = mx /\ UNCHANGED ma

\* A constructor call: it panics, it faults, or its result is bound.
Construct(op, shape, faults, mx) ==
    /\ MatrixRunning
    /\ ~ma.live \/ ~mb.live
    /\ IF AllocPanics(shape)
       THEN mout' = PanickedIn(op) /\ UNCHANGED <<ma, mb>>
       ELSE IF faults
       THEN mout' = FaultedIn(op) /\ UNCHANGED <<ma, mb>>
       ELSE mout' = Done(op) /\ Bind(mx)
    /\ UNCHANGED <<build, viewVars, mc>>

Zero(shape) == Construct("zero", shape, FALSE, zero(shape))
Id(n) == Construct("id", <<n, n>>, from_fn_writes_outside(<<n, n>>), id(n))
FromFn(shape, f) ==
    Construct("from_fn", shape, from_fn_writes_outside(shape), from_fn(shape, f))

\* matrix! collects the literal: no product is computed.
Literal(rows) ==
    /\ MatrixRunning
    /\ mout' = Done("matrix")
    /\ Bind(matrix(rows))
    /\ UNCHANGED <<build, viewVars, mc>>

\* let c = &a * &b
Multiply ==
    /\ MatrixRunning
    /\ ma.live /\ mb.live /\ ~mc.live
    /\ IF ~mul_assert(ma, mb) \/ AllocPanics(<<ma.shape[1], mb.shape[2]>>)
       THEN /\ mout' = PanickedIn("mul")
            /\ UNCHANGED mc
       ELSE IF mul_faults(ma, mb)
       THEN /\ mout' = [ld |-> mul_strides(ma, mb), res |-> "fault",
                        op |-> "mul", kernel |-> TRUE]
            /\ UNCHANGED mc
       ELSE /\ mc' = mul(ma, mb)
            /\ mout' = [ld |-> mul_strides(ma, mb), res |-> "ok",
                        op |-> "mul", kernel |-> TRUE]
    /\ UNCHANGED <<build, viewVars, ma, mb>>

NextMatrix ==
    \/ \E shape \in Shapes : Zero(shape)
    \/ \E n \in Sizes : Id(n)
    \/ \E shape \in Shapes, f \in Fns : FromFn(shape, f)
    \/ \E rows \in Literals : Literal(rows)
    \/ Multiply

SpecMatrix == InitMatrix /\ [][NextMatrix]_vars

(***************************************************************************)
(* Properties of slicing and indexing, checked under Spec.                 *)
(***************************************************************************)
\* (i, j) is a valid index of a: 0 <= i < rows and 0 <= j < cols.
InShape(a, i, j) == i < a.shape[1] /\ j < a.shape[2]

\* r is in bounds of a dimension of size dim: start <= end <= dim.
RangeInBounds(r, dim) ==
    r.start <= unwrap_or(r.end, dim) /\ unwrap_or(r.end, dim) <= dim

\* v is a live view sliced directly from the owned array with in-bounds ranges.
InBoundsViewOfOwner(v) ==
    /\ arrays[v].live
    /\ arrays[v].parent = 0
    /\ RangeInBounds(arrays[v].is, arrays[0].shape[1])
    /\ RangeInBounds(arrays[v].js, arrays[0].shape[2])

\* The step bound a new view to handle v.
Created(v) == ~arrays[v].live /\ arrays'[v].live

\* What C1 says of the view v at a state.
C1_ViewReindexesOwner(v) ==
    LET A == arrays[0]
        V == arrays[v]
    IN (InBoundsViewOfOwner(v) /\ V.data = "ref") =>
          /\ V.shape = <<unwrap_or(V.is.end, A.shape[1]) - V.is.start,
                         unwrap_or(V.js.end, A.shape[2]) - V.js.start>>
          /\ \A i \in 0 .. V.shape[1] - 1, j \in 0 .. V.shape[2] - 1 :
                /\ InShape(A, V.is.start + i, V.js.start + j)
                /\ index_addr(V, i, j) < Len(mem)
                /\ ReadOutcomes(index_addr(V, i, j))
                      = ReadOutcomes(index_addr(A, V.is.start + i, V.js.start + j))

\* C1: a view V = A.slice(r, c) of the owned array A with in-bounds ranges has
\* shape (r.end - r.start, c.end - c.start) and reading V[i, j] yields the cell
\* A[r.start + i, c.start + j] for every valid (i, j), for as long as V lives;
\* an in-bounds slice always returns its view, and the step that creates a view
\* leaves the buffer and the owned array as they were.
C1_SliceIsReindexing ==
    /\ [](\A v \in ViewIds : C1_ViewReindexesOwner(v))
    /\ [][
        /\ out'.res = "panic" =>
              \A r \in SliceArgs :
                 (/\ RangeInBounds(r[1], arrays[0].shape[1])
                  /\ RangeInBounds(r[2], arrays[0].shape[2]))
                    => ~Slice(0, r[1], r[2])
        /\ \A v \in ViewIds :
              Created(v) => (mem' = mem /\ arrays'[0] = arrays[0])
      ]_vars

\* C1 witness: a live immutable 1x1 view of the owned 2x3 matrix at row 1,
\* column 0 (b.slice(1, ..1)), narrower than its parent.
C1_Witness ==
    /\ arrays[0].shape = <<2, 3>>
    /\ arrays[1].live /\ arrays[1].data = "ref" /\ arrays[1].parent = 0
    /\ arrays[1].is = FromUsize(1) /\ arrays[1].js = FromRangeTo(1)
    /\ arrays[1].shape = <<1, 1>>
    /\ ReadOutcomes(index_addr(arrays[1], 0, 0)) = {Returned(Fin(4))}

Region(a) ==
    {index_addr(a, i, j) : i \in 0 .. a.shape[1] - 1, j \in 0 .. a.shape[2] - 1}

\* C3: every view reached by any chain of slice / slice_mut calls has the
\* owner's stride, and every valid index of it addresses a cell inside the
\* owner's allocation and inside the region of the array it was sliced from.
C3_ViewsStayInsideParent ==
    \A v \in ViewIds :
        arrays[v].live =>
            /\ arrays[v].stride = arrays[0].stride
            /\ \A a \in Region(arrays[v]) :
                  a < Len(mem) /\ a \in Region(arrays[arrays[v].parent])

\* The range r applied to a dimension of size dim has start > end.
Inverted(r, dim) == r.start > unwrap_or(r.end, dim)

\* C4: a slice or slice_mut call with a range whose resolved start exceeds its
\* resolved end fails and returns no view (the count is never wrapped); a
\* zero-width in-bounds range yields an empty view.
C4_InvertedRangeIsAnError ==
    [][ \A src \in ArrayIds, r \in SliceArgs :
          LET self == arrays[src]
              bad == \/ Inverted(r[1], self.shape[1])
                     \/ Inverted(r[2], self.shape[2])
              empty == /\ RangeInBounds(r[1], self.shape[1])
                       /\ RangeInBounds(r[2], self.shape[2])
                       /\ \/ r[1].start = unwrap_or(r[1].end, self.shape[1])
                          \/ r[2].start = unwrap_or(r[2].end, self.shape[2])
          IN /\ (bad /\ (Slice(src, r[1], r[2]) \/ SliceMut(src, r[1], r[2])))
                  => (out'.res = "panic" /\ arrays' = arrays)
             /\ (empty /\ (Slice(src, r[1], r[2]) \/ SliceMut(src, r[1], r[2])))
                  => \E v \in ViewIds :
                        /\ Created(v)
                        /\ arrays'[v].shape[1] = 0 \/ arrays'[v].shape[2] = 0
      ]_vars

\* C5: reading or writing at an index outside 0 <= i < rows, 0 <= j < cols
\* fails and touches no storage.
C5_OutOfShapeIndexFails ==
    [][ \A src \in ArrayIds, i \in Idx, j \in Idx :
          (~InShape(arrays[src], i, j)) =>
             /\ Index(src, i, j) => out'.res \in {"panic", "fault"}
             /\ \A x \in WriteVals :
                   IndexMut(src, i, j, x) =>
                      (out'.res \in {"panic", "fault"} /\ mem' = mem)
      ]_vars

\* The live views of each kind, and those no live view is borrowed from.
LiveViews(kind) == {v \in ViewIds : arrays[v].live /\ arrays[v].data = kind}
BorrowedFrom(s, kind) ==
    \E v \in ViewIds : arrays[v].live /\ arrays[v].parent = s /\ arrays[v].data = kind
Unborrowed(kind) ==
    {v \in LiveViews(kind) : ~BorrowedFrom(v, "ref") /\ ~BorrowedFrom(v, "mut")}

\* One writer or any number of readers, counted over the views in vs.
OneWriterOrReaders(muts, refs) ==
    \/ Cardinality(muts) <= 1 /\ refs = {}
    \/ muts = {}

\* The operations a program may apply to the array s: reading and slicing
\* need s shared, writing and slicing mutably need it exclusively.
ReadsOrSlices(s) ==
    \/ \E i \in Idx, j \in Idx : Index(s, i, j)
    \/ \E r \in SliceArgs : Slice(s, r[1], r[2])
WritesOrSlicesMut(s) ==
    \/ \E i \in Idx, j \in Idx, x \in WriteVals : IndexMut(s, i, j, x)
    \/ \E r \in SliceArgs : SliceMut(s, r[1], r[2])

\* While a mutable view of s is alive, s cannot be read, written or sliced;
\* while an immutable view of s is alive, s cannot be written and no mutable
\* view of it can be obtained.
SourceIsSuspended(s) ==
    /\ BorrowedFrom(s, "mut") =>
          ~ENABLED (ReadsOrSlices(s) \/ WritesOrSlicesMut(s))
    /\ BorrowedFrom(s, "ref") => ~ENABLED WritesOrSlicesMut(s)

\* C6 as stated: at any time the storage of the owned array has at most one
\* live mutable view and no live immutable view, or only immutable views;
\* a source with a live mutable view cannot be read, written or sliced, and a
\* source with a live immutable view cannot be written or mutably sliced.
C6_OneMutableOrManyImmutable ==
    /\ OneWriterOrReaders(LiveViews("mut"), LiveViews("ref"))
    /\ \A s \in ArrayIds : SourceIsSuspended(s)

\* C6 amended: the count is over the live views that no live view is borrowed
\* from (a view sliced from a view suspends it as a view suspends the owned
\* array): among those there is at most one mutable view and no immutable
\* one, or only immutable ones; every source, the owned array or a view, with
\* a live mutable view cannot be read, written or sliced, and with a live
\* immutable view cannot be written or mutably sliced.
C6_OneUnborrowedWriterOrReaders ==
    /\ OneWriterOrReaders(Unborrowed("mut"), Unborrowed("ref"))
    /\ \A s \in ArrayIds : SourceIsSuspended(s)

\* C6 witness: a live mutable view of the owned array and a live immutable
\* view sliced from that view.
C6_Witness ==
    /\ arrays[1].live /\ arrays[1].data = "mut" /\ arrays[1].parent = 0
    /\ arrays[2].live /\ arrays[2].data = "ref" /\ arrays[2].parent = 1

(***************************************************************************)
(* Properties of the constructors and of the product, checked under        *)
(* SpecMatrix.                                                             *)
(***************************************************************************)
\* mx[[i, j]] read through Index.
MatGet(mx, i, j) == BufRead(mx.buf, index_addr(mx, i, j))

\* x and y have the same shape and x[i, j] == y[i, j] (f32's ==) in every cell.
SameCells(x, y) ==
    /\ x.shape = y.shape
    /\ \A i \in 0 .. x.shape[1] - 1, j \in 0 .. x.shape[2] - 1 :
          FEq(MatGet(x, i, j), MatGet(y, i, j))

AllFinite(mx) == \A c \in 1 .. Len(mx.buf) : mx.buf[c].k = "fin"

\* C7: the product of owned arrays a and b succeeds only when
\* a.cols == b.rows; when they differ it fails without calling the kernel and
\* without returning an array; when it succeeds the result is a new owned
\* array of shape (a.rows, b.cols); a and b are unchanged either way.
C7_MultiplyChecksInnerDimension ==
    [][ Multiply =>
          /\ mout'.res = "ok" => ma.shape[2] = mb.shape[1]
          /\ ma.shape[2] # mb.shape[1] =>
                (mout'.res = "panic" /\ ~mout'.kernel /\ ~mc'.live)
          /\ mout'.res = "ok" =>
                /\ mout'.kernel
                /\ mc'.live
                /\ mc'.shape = <<ma.shape[1], mb.shape[2]>>
                /\ Len(mc'.buf) = ma.shape[1] * mb.shape[2]
          /\ ma' = ma /\ mb' = mb
      ]_vars

\* C7 witness: a product of a 2x2 by a 1x2 matrix was attempted and panicked.
C7_Witness ==
    /\ mout.op = "mul" /\ mout.res = "panic"
    /\ ma.live /\ mb.live /\ ~mc.live
    /\ ma.shape = <<2, 2>> /\ mb.shape = <<1, 2>>

\* The identity laws for the product computed in this step, for the operands
\* that satisfy P.
IdentityLaws(P(_)) ==
    (Multiply /\ mout'.res = "ok") =>
        \A n \in Dims :
            /\ (ma = id(n) /\ mb.shape = <<n, n>> /\ P(mb)) => SameCells(mc', mb)
            /\ (mb = id(n) /\ ma.shape = <<n, n>> /\ P(ma)) => SameCells(mc', ma)

AnyMatrix(mx) == TRUE

\* C8 as stated: for every n and every owned n-by-n array A,
\* multiply(id(n), A) == A and multiply(A, id(n)) == A cell by cell.
C8_IdentityLaw == [][IdentityLaws(AnyMatrix)]_vars

\* C8 amended: for every n and every owned n-by-n array A whose cells are all
\* finite, multiply(id(n), A) == A and multiply(A, id(n)) == A cell by cell.
C8_IdentityLawOnFinite == [][IdentityLaws(AllFinite)]_vars

\* C8 witness: id(2) times the 2x2 matrix [1 2; 3 4] was computed and is
\* that matrix.
C8_Witness ==
    /\ mout.op = "mul" /\ mout.res = "ok"
    /\ ma = id(2)
    /\ mb = from_fn(<<2, 2>>, "rowmajor")
    /\ mc.buf = <<Fin(1), Fin(2), Fin(3), Fin(4)>>

\* C9: for every n, id(n) is an owned n-by-n array whose cells were all
\* written before it is returned, with one() on the diagonal and zero()
\* everywhere else.
C9_IdIsIdentity ==
    [][ \A n \in Sizes :
          (Id(n) /\ mout'.res = "ok") =>
             LET mx == IF ~ma.live THEN ma' ELSE mb'
             IN /\ mx.live
                /\ mx.shape = <<n, n>>
                /\ Len(mx.buf) = n * n
                /\ \A c \in 1 .. Len(mx.buf) : mx.buf[c] # Uninit
                /\ \A i \in 0 .. n - 1, j \in 0 .. n - 1 :
                      /\ FEq(MatGet(mx, i, j), RingOne) <=> i = j
                      /\ i # j => FEq(MatGet(mx, i, j), RingZero)
      ]_vars

\* C9 witness: id(2) was called and returned [1 0; 0 1].
C9_Witness ==
    /\ mout.op = "id" /\ mout.res = "ok"
    /\ ma.live /\ ~mb.live
    /\ ma.shape = <<2, 2>>
    /\ ma.buf = <<Fin(1), Fin(0), Fin(0), Fin(1)>>

\* An owned array: dense rows over a buffer of rows * cols cells, pointing at
\* the buffer's first element.
OwnedWellFormed(mx) ==
    mx.live =>
        /\ mx.stride = mx.shape[2]
        /\ Len(mx.buf) = mx.shape[1] * mx.shape[2]
        /\ mx.start = 0

\* C10: every owned array, however it was produced (zero, id, from_fn,
\* matrix!, a product), has stride == cols, a buffer of rows * cols cells and
\* start at the buffer's first element; the leading dimensions a product
\* handed to the kernel are the strides of its operands and of its result.
C10_OwnedArraysAreDense ==
    /\ OwnedWellFormed(ma) /\ OwnedWellFormed(mb) /\ OwnedWellFormed(mc)
    /\ (mout.op = "mul" /\ mout.res = "ok") =>
          mout.ld = <<ma.stride, mb.stride, mc.stride>>

====
